---- MODULE Spec2Model ----
(***************************************************************************)
(* Model of pkg/wallet/service.go: the in-memory wallet Service with its   *)
(* accounts, payments and favorites slices, the account-ID counter and the *)
(* flat-file export/import of the accounts.                                *)
(***************************************************************************)
EXTENDS Integers, Sequences, FiniteSets, TLC

(***************************************************************************)
(* Bound of the model.                                                     *)
(***************************************************************************)
\* the number of calls a run makes on the service
MaxCalls == 5

\* size of the read buffer of ImportFromFile
BuffSize == 4

(***************************************************************************)
(* Inputs the callers may pass.                                            *)
(***************************************************************************)
Phones == {<<"+", "1">>, <<"+", "2">>}
\* amounts below, at and above zero, and below, at and above a balance
Amounts == {-1, 0, 1, 2}
\* the IDs registration and the files give, and one no account has
AccountIDs == {1, 2, 3}
Categories == {"food"}
Names == {"lunch"}
\* the identifiers a run can be handed, and one it is not
UUIDs == 1..MaxCalls

\* the sentinel errors
ErrNil == "nil"
ErrPhoneRegistered == "phone already registered"
ErrAmountMustBePositive == "amount must be greater than zero"
ErrAccountNotFound == "account not found"
ErrNotEnoughBalance == "not enough balance in account"
ErrPaymentNotFound == "payment not found"
ErrCannotRegisterAccount == "can not register account"
ErrCannotDepositAccount == "can not deposit account"
ErrFavoriteNotFound == "favorite payment not found"
\* os.Open on a path that does not exist
ErrNotExist == "no such file or directory"
\* runtime panic: index out of range
Panic == "panic"

PaymentStatusInProgress == "INPROGRESS"
PaymentStatusFail == "FAIL"

\* the content of a path that names no file
NoFile == <<"<absent>">>

VARIABLES
  nextAccountID,  \* Service.nextAccountID
  accounts,       \* Service.accounts: sequence of [ID, Phone, Balance]
  payments,       \* Service.payments: sequence of [ID, AccountID, Amount, Category, Status]
  favorites,      \* Service.favorites: sequence of [ID, AccountID, Name, Amount, Category]
  uuids,          \* number of identifiers uuid.New() has handed out
  file,           \* the content of the file at the export/import path, or NoFile
  imported,       \* history: ImportFromFile has been called
  calls,          \* history: the number of calls made so far
  pc,             \* per goroutine: the statement it is at, "idle" outside a call
  frame,          \* per goroutine: the arguments and locals of its call
  interleaved,    \* history: a goroutine has run while another was inside a call
  deposited,      \* history: per account, the sum of the amounts deposited to it
  rejectedTwice   \* history: Reject has succeeded on a payment already rejected

vars == <<nextAccountID, accounts, payments, favorites, uuids, file, imported, calls,
          pc, frame, interleaved, deposited, rejectedTwice>>

\* the goroutines calling the service, and the locals of one outside a call
Goroutines == {1, 2}

IdleFrame ==
  [phone |-> <<>>, accountID |-> 0, amount |-> 0, category |-> "", account |-> 0,
   read |-> 0]

\* what the calls of one caller at a time leave alone
raceVars == <<pc, frame, interleaved>>

ledgerVars == <<deposited, rejectedTwice>>

\* The service as one value; operations map a service to a result.
Svc ==
  [nextAccountID |-> nextAccountID, accounts |-> accounts, payments |-> payments,
   favorites |-> favorites, uuids |-> uuids]

\* A result of an operation: the service afterwards, the error, and the returned
\* pointer as the index of the element it points to (0 for nil).
Result(s, err, ret) == [s |-> s, err |-> err, ret |-> ret]

(***************************************************************************)
(* Lookups: linear scans returning the first match (index, 0 when absent). *)
(***************************************************************************)
\* the first index of a scan among the matching indexes, 0 when none matches
FirstIndex(matching) ==
  IF matching = {} THEN 0 ELSE CHOOSE i \in matching : \A j \in matching : i <= j

FindAccountByID(s, accountID) ==
  LET i == FirstIndex({k \in 1..Len(s.accounts) : s.accounts[k].ID = accountID})
  IN  Result(s, IF i = 0 THEN ErrAccountNotFound ELSE ErrNil, i)

FindPaymentByID(s, paymentID) ==
  LET i == FirstIndex({k \in 1..Len(s.payments) : s.payments[k].ID = paymentID})
  IN  Result(s, IF i = 0 THEN ErrPaymentNotFound ELSE ErrNil, i)

FindFavoriteByID(s, favoriteID) ==
  LET i == FirstIndex({k \in 1..Len(s.favorites) : s.favorites[k].ID = favoriteID})
  IN  Result(s, IF i = 0 THEN ErrFavoriteNotFound ELSE ErrNil, i)

\* uuid.New().String(): an identifier never handed out before
NewUUID(s) == s.uuids + 1

(***************************************************************************)
(* Account operations.                                                     *)
(***************************************************************************)
\* RegisterAccount with the counter advanced before the phone scan
RegisterAccountBurnsID(s, phone) ==
  LET id == s.nextAccountID + 1
  IN  IF \E i \in 1..Len(s.accounts) : s.accounts[i].Phone = phone
      THEN Result([s EXCEPT !.nextAccountID = id], ErrPhoneRegistered, 0)
      ELSE Result([s EXCEPT !.nextAccountID = id,
                            !.accounts = Append(s.accounts,
                                                [ID |-> id, Phone |-> phone, Balance |-> 0])],
                  ErrNil, Len(s.accounts) + 1)

\* RegisterAccount without the increment of the counter
RegisterAccountNoIncrement(s, phone) ==
  IF \E i \in 1..Len(s.accounts) : s.accounts[i].Phone = phone
  THEN Result(s, ErrPhoneRegistered, 0)
  ELSE Result([s EXCEPT !.accounts = Append(s.accounts,
                                            [ID |-> s.nextAccountID, Phone |-> phone,
                                             Balance |-> 0])],
              ErrNil, Len(s.accounts) + 1)

\* RegisterAccount without the scan for the phone
RegisterAccountNoScan(s, phone) ==
  LET id == s.nextAccountID + 1
  IN  Result([s EXCEPT !.nextAccountID = id,
                       !.accounts = Append(s.accounts,
                                           [ID |-> id, Phone |-> phone, Balance |-> 0])],
             ErrNil, Len(s.accounts) + 1)

\* RegisterAccount with the ID taken before the increment
RegisterAccountPostIncrement(s, phone) ==
  IF \E i \in 1..Len(s.accounts) : s.accounts[i].Phone = phone
  THEN Result(s, ErrPhoneRegistered, 0)
  ELSE Result([s EXCEPT !.nextAccountID = @ + 1,
                        !.accounts = Append(s.accounts,
                                            [ID |-> s.nextAccountID, Phone |-> phone,
                                             Balance |-> 0])],
              ErrNil, Len(s.accounts) + 1)

RegisterAccount(s, phone) ==
  IF \E i \in 1..Len(s.accounts) : s.accounts[i].Phone = phone
  THEN Result(s, ErrPhoneRegistered, 0)
  ELSE LET id == s.nextAccountID + 1
           account == [ID |-> id, Phone |-> phone, Balance |-> 0]
           s1 == [s EXCEPT !.nextAccountID = id,
                           !.accounts = Append(s.accounts, account)]
       IN  Result(s1, ErrNil, Len(s1.accounts))

\* Deposit with the account looked up before the amount is checked
DepositLookupFirst(s, accountID, amount) ==
  LET i == FirstIndex({k \in 1..Len(s.accounts) : s.accounts[k].ID = accountID})
  IN  IF i = 0
      THEN Result(s, ErrAccountNotFound, 0)
      ELSE IF amount <= 0
           THEN Result(s, ErrAmountMustBePositive, 0)
           ELSE Result([s EXCEPT !.accounts[i].Balance = @ + amount], ErrNil, 0)

Deposit(s, accountID, amount) ==
  IF amount <= 0
  THEN Result(s, ErrAmountMustBePositive, 0)
  ELSE LET i == FirstIndex({k \in 1..Len(s.accounts) : s.accounts[k].ID = accountID})
       IN  IF i = 0
           THEN Result(s, ErrAccountNotFound, 0)
           ELSE Result([s EXCEPT !.accounts[i].Balance = @ + amount], ErrNil, 0)

\* AddAccountWithBalance undoing the registration when the deposit fails
AddAccountWithBalanceRollback(s, phone, balance) ==
  LET r1 == RegisterAccount(s, phone)
  IN  IF r1.err # ErrNil
      THEN Result(r1.s, ErrCannotRegisterAccount, 0)
      ELSE LET r2 == Deposit(r1.s, r1.s.accounts[r1.ret].ID, balance)
           IN  IF r2.err # ErrNil
               THEN Result(s, ErrCannotDepositAccount, 0)
               ELSE Result(r2.s, ErrNil, r1.ret)

AddAccountWithBalance(s, phone, balance) ==
  LET r1 == RegisterAccount(s, phone)
  IN  IF r1.err # ErrNil
      THEN Result(r1.s, ErrCannotRegisterAccount, 0)
      ELSE LET r2 == Deposit(r1.s, r1.s.accounts[r1.ret].ID, balance)
           IN  IF r2.err # ErrNil
               THEN Result(r2.s, ErrCannotDepositAccount, 0)
               ELSE Result(r2.s, ErrNil, r1.ret)

(***************************************************************************)
(* Payment operations.                                                     *)
(***************************************************************************)
\* Pay recording the payment of an account it does not find
PayUnknownAccount(s, accountID, amount, category) ==
  IF amount <= 0
  THEN Result(s, ErrAmountMustBePositive, 0)
  ELSE LET f == FindAccountByID(s, accountID)
           paymentID == NewUUID(s)
           payment == [ID |-> paymentID, AccountID |-> accountID,
                       Amount |-> amount, Category |-> category,
                       Status |-> PaymentStatusInProgress]
       IN  IF f.err # ErrNil
           THEN Result([s EXCEPT !.uuids = paymentID,
                                 !.payments = Append(s.payments, payment)],
                       ErrNil, Len(s.payments) + 1)
           ELSE IF s.accounts[f.ret].Balance < amount
                THEN Result(s, ErrNotEnoughBalance, 0)
                ELSE LET s1 == [s EXCEPT !.accounts[f.ret].Balance = @ - amount,
                                         !.uuids = paymentID,
                                         !.payments = Append(s.payments, payment)]
                     IN  Result(s1, ErrNil, Len(s1.payments))

\* Pay looking the account up before it checks the amount
PayLookupFirst(s, accountID, amount, category) ==
  LET f == FindAccountByID(s, accountID)
  IN  IF f.err # ErrNil
      THEN Result(s, f.err, 0)
      ELSE IF amount <= 0
           THEN Result(s, ErrAmountMustBePositive, 0)
           ELSE IF s.accounts[f.ret].Balance < amount
                THEN Result(s, ErrNotEnoughBalance, 0)
                ELSE LET paymentID == NewUUID(s)
                         payment == [ID |-> paymentID, AccountID |-> accountID,
                                     Amount |-> amount, Category |-> category,
                                     Status |-> PaymentStatusInProgress]
                         s1 == [s EXCEPT !.accounts[f.ret].Balance = @ - amount,
                                         !.uuids = paymentID,
                                         !.payments = Append(s.payments, payment)]
                     IN  Result(s1, ErrNil, Len(s1.payments))

\* Pay without the comparison of the balance with the amount
PayNoBalanceCheck(s, accountID, amount, category) ==
  IF amount <= 0
  THEN Result(s, ErrAmountMustBePositive, 0)
  ELSE LET f == FindAccountByID(s, accountID)
       IN  IF f.err # ErrNil
           THEN Result(s, f.err, 0)
           ELSE Result([s EXCEPT !.accounts[f.ret].Balance = @ - amount,
                                 !.uuids = NewUUID(s),
                                 !.payments =
                                   Append(s.payments,
                                          [ID |-> NewUUID(s), AccountID |-> accountID,
                                           Amount |-> amount, Category |-> category,
                                           Status |-> PaymentStatusInProgress])],
                       ErrNil, Len(s.payments) + 1)

\* Pay refusing an amount equal to the balance
PayOffByOne(s, accountID, amount, category) ==
  IF amount <= 0
  THEN Result(s, ErrAmountMustBePositive, 0)
  ELSE LET f == FindAccountByID(s, accountID)
       IN  IF f.err # ErrNil
           THEN Result(s, f.err, 0)
           ELSE IF s.accounts[f.ret].Balance <= amount
                THEN Result(s, ErrNotEnoughBalance, 0)
                ELSE Result([s EXCEPT !.accounts[f.ret].Balance = @ - amount,
                                      !.uuids = NewUUID(s),
                                      !.payments =
                                        Append(s.payments,
                                               [ID |-> NewUUID(s), AccountID |-> accountID,
                                                Amount |-> amount, Category |-> category,
                                                Status |-> PaymentStatusInProgress])],
                            ErrNil, Len(s.payments) + 1)

Pay(s, accountID, amount, category) ==
  IF amount <= 0
  THEN Result(s, ErrAmountMustBePositive, 0)
  ELSE LET f == FindAccountByID(s, accountID)
       IN  IF f.err # ErrNil
           THEN Result(s, f.err, 0)
           ELSE IF s.accounts[f.ret].Balance < amount
                THEN Result(s, ErrNotEnoughBalance, 0)
                ELSE LET paymentID == NewUUID(s)
                         payment == [ID |-> paymentID, AccountID |-> accountID,
                                     Amount |-> amount, Category |-> category,
                                     Status |-> PaymentStatusInProgress]
                         s1 == [s EXCEPT !.accounts[f.ret].Balance = @ - amount,
                                         !.uuids = paymentID,
                                         !.payments = Append(s.payments, payment)]
                     IN  Result(s1, ErrNil, Len(s1.payments))

\* Reject taking the amount from the account instead of returning it
RejectDebits(s, paymentID) ==
  LET fp == FindPaymentByID(s, paymentID)
  IN  IF fp.err # ErrNil
      THEN Result(s, fp.err, 0)
      ELSE LET payment == s.payments[fp.ret]
               fa == FindAccountByID(s, payment.AccountID)
           IN  IF fa.err # ErrNil
               THEN Result(s, fa.err, 0)
               ELSE Result([s EXCEPT !.payments[fp.ret].Status = PaymentStatusFail,
                                     !.accounts[fa.ret].Balance = @ - payment.Amount],
                           ErrNil, 0)

\* Reject marking the payment failed without returning its amount
RejectKeepsMoney(s, paymentID) ==
  LET fp == FindPaymentByID(s, paymentID)
  IN  IF fp.err # ErrNil
      THEN Result(s, fp.err, 0)
      ELSE LET payment == s.payments[fp.ret]
               fa == FindAccountByID(s, payment.AccountID)
           IN  IF fa.err # ErrNil
               THEN Result(s, fa.err, 0)
               ELSE Result([s EXCEPT !.payments[fp.ret].Status = PaymentStatusFail],
                           ErrNil, 0)

\* Reject refunding only a payment that is still in progress
RejectOnce(s, paymentID) ==
  LET fp == FindPaymentByID(s, paymentID)
  IN  IF fp.err # ErrNil
      THEN Result(s, fp.err, 0)
      ELSE LET payment == s.payments[fp.ret]
               fa == FindAccountByID(s, payment.AccountID)
           IN  IF fa.err # ErrNil
               THEN Result(s, fa.err, 0)
               ELSE IF payment.Status = PaymentStatusFail
                    THEN Result(s, ErrNil, 0)
                    ELSE Result([s EXCEPT !.payments[fp.ret].Status = PaymentStatusFail,
                                          !.accounts[fa.ret].Balance = @ + payment.Amount],
                                ErrNil, 0)

\* Reject clearing the amount of the payment it refunds
RejectClearsAmount(s, paymentID) ==
  LET fp == FindPaymentByID(s, paymentID)
  IN  IF fp.err # ErrNil
      THEN Result(s, fp.err, 0)
      ELSE LET payment == s.payments[fp.ret]
               fa == FindAccountByID(s, payment.AccountID)
           IN  IF fa.err # ErrNil
               THEN Result(s, fa.err, 0)
               ELSE Result([s EXCEPT !.payments[fp.ret].Status = PaymentStatusFail,
                                     !.payments[fp.ret].Amount = 0,
                                     !.accounts[fa.ret].Balance = @ + payment.Amount],
                           ErrNil, 0)

Reject(s, paymentID) ==
  LET fp == FindPaymentByID(s, paymentID)
  IN  IF fp.err # ErrNil
      THEN Result(s, fp.err, 0)
      ELSE LET payment == s.payments[fp.ret]
               fa == FindAccountByID(s, payment.AccountID)
           IN  IF fa.err # ErrNil
               THEN Result(s, fa.err, 0)
               ELSE Result([s EXCEPT !.payments[fp.ret].Status = PaymentStatusFail,
                                     !.accounts[fa.ret].Balance = @ + payment.Amount],
                           ErrNil, 0)

\* Repeat appending a copy of the payment it repeats instead of calling Pay
RepeatCopies(s, paymentID) ==
  LET fp == FindPaymentByID(s, paymentID)
  IN  IF fp.err # ErrNil
      THEN Result(s, fp.err, 0)
      ELSE LET targetPayment == s.payments[fp.ret]
               fa == FindAccountByID(s, targetPayment.AccountID)
           IN  IF fa.err # ErrNil
               THEN Result(s, fa.err, 0)
               ELSE IF s.accounts[fa.ret].Balance < targetPayment.Amount
                    THEN Result(s, ErrNotEnoughBalance, 0)
                    ELSE Result([s EXCEPT !.accounts[fa.ret].Balance =
                                            @ - targetPayment.Amount,
                                          !.payments = Append(s.payments, targetPayment)],
                                ErrNil, Len(s.payments) + 1)

Repeat(s, paymentID) ==
  LET fp == FindPaymentByID(s, paymentID)
  IN  IF fp.err # ErrNil
      THEN Result(s, fp.err, 0)
      ELSE LET targetPayment == s.payments[fp.ret]
           IN  Pay(s, targetPayment.AccountID, targetPayment.Amount,
                   targetPayment.Category)

(***************************************************************************)
(* Favorites.                                                              *)
(***************************************************************************)
\* FavoritePayment refusing a payment that has been rejected
FavoritePaymentInProgressOnly(s, paymentID, name) ==
  LET fp == FindPaymentByID(s, paymentID)
  IN  IF fp.err # ErrNil \/ s.payments[fp.ret].Status = PaymentStatusFail
      THEN Result(s, ErrPaymentNotFound, 0)
      ELSE LET payment == s.payments[fp.ret]
           IN  Result([s EXCEPT !.uuids = NewUUID(s),
                                !.favorites =
                                  Append(s.favorites,
                                         [ID |-> NewUUID(s),
                                          AccountID |-> payment.AccountID,
                                          Name |-> name, Amount |-> payment.Amount,
                                          Category |-> payment.Category])],
                      ErrNil, Len(s.favorites) + 1)

FavoritePayment(s, paymentID, name) ==
  LET fp == FindPaymentByID(s, paymentID)
  IN  IF fp.err # ErrNil
      THEN Result(s, fp.err, 0)
      ELSE LET payment == s.payments[fp.ret]
               favorite == [ID |-> NewUUID(s), AccountID |-> payment.AccountID,
                            Name |-> name, Amount |-> payment.Amount,
                            Category |-> payment.Category]
               s1 == [s EXCEPT !.uuids = favorite.ID,
                               !.favorites = Append(s.favorites, favorite)]
           IN  Result(s1, ErrNil, Len(s1.favorites))

PayFromFavorite(s, favoriteID) ==
  LET ff == FindFavoriteByID(s, favoriteID)
  IN  IF ff.err # ErrNil
      THEN Result(s, ff.err, 0)
      ELSE LET favorite == s.favorites[ff.ret]
           IN  Pay(s, favorite.AccountID, favorite.Amount, favorite.Category)

(***************************************************************************)
(* Persistence: text is a sequence of one-character strings.               *)
(***************************************************************************)
Digits == <<"0", "1", "2", "3", "4", "5", "6", "7", "8", "9">>

IsDigit(c) == \E d \in 1..10 : Digits[d] = c

DigitVal(c) == (CHOOSE d \in 1..10 : Digits[d] = c) - 1

RECURSIVE FormatNat(_)
FormatNat(n) ==
  IF n < 10 THEN <<Digits[n + 1]>>
  ELSE FormatNat(n \div 10) \o <<Digits[(n % 10) + 1]>>

\* strconv.FormatInt(n, 10)
FormatInt(n) == IF n < 0 THEN <<"-">> \o FormatNat(-n) ELSE FormatNat(n)

RECURSIVE ParseNat(_, _)
ParseNat(str, acc) ==
  IF str = <<>> THEN acc ELSE ParseNat(Tail(str), acc * 10 + DigitVal(Head(str)))

\* strconv.ParseInt(str, 10, 64) with the error dropped: 0 on a syntax error
ParseInt(str) ==
  LET signed == Len(str) > 0 /\ str[1] \in {"+", "-"}
      body == IF signed THEN Tail(str) ELSE str
  IN  IF body = <<>> \/ \E i \in 1..Len(body) : ~IsDigit(body[i])
      THEN 0
      ELSE IF signed /\ str[1] = "-" THEN 0 - ParseNat(body, 0) ELSE ParseNat(body, 0)

\* strings.Split(str, sep) for a one-character separator
RECURSIVE Split(_, _)
Split(str, sep) ==
  LET at == FirstIndex({i \in 1..Len(str) : str[i] = sep})
  IN  IF at = 0 THEN <<str>>
      ELSE <<SubSeq(str, 1, at - 1)>> \o Split(SubSeq(str, at + 1, Len(str)), sep)

\* the record written with the separator in front of it
ExportRecordSeparatorFirst(account) ==
  <<"|">> \o (FormatInt(account.ID) \o <<";">>) \o (account.Phone \o <<";">>)
    \o FormatInt(account.Balance)

\* the record ExportToFile writes for one account
ExportRecord(account) ==
  (FormatInt(account.ID) \o <<";">>) \o (account.Phone \o <<";">>)
    \o FormatInt(account.Balance) \o <<"|">>

RECURSIVE ExportRecords(_)
ExportRecords(accs) ==
  IF accs = <<>> THEN <<>> ELSE ExportRecord(Head(accs)) \o ExportRecords(Tail(accs))

\* os.Create truncates the file, then one Write per account; creating, writing
\* and closing are taken to succeed
ExportToFile(s, f) ==
  [s |-> s, err |-> ErrNil, ret |-> 0, file |-> ExportRecords(s.accounts)]

\* the read loop: file.Read fills at most BuffSize bytes until io.EOF
RECURSIVE ReadFile(_, _)
ReadFile(rest, content) ==
  IF rest = <<>> THEN content
  ELSE LET read == IF Len(rest) < BuffSize THEN Len(rest) ELSE BuffSize
       IN  ReadFile(SubSeq(rest, read + 1, Len(rest)), content \o SubSeq(rest, 1, read))

\* the loop over the records going on to the next record at an empty one
RECURSIVE ImportLinesSkipsEmpty(_, _)
ImportLinesSkipsEmpty(accs, lines) ==
  IF lines = <<>> THEN [accounts |-> accs, err |-> ErrNil]
  ELSE LET line == Head(lines)
           item == Split(line, ";")
       IN  IF Len(line) <= 0 THEN ImportLinesSkipsEmpty(accs, Tail(lines))
           ELSE IF Len(item) < 3 THEN [accounts |-> accs, err |-> Panic]
           ELSE ImportLinesSkipsEmpty(
                  Append(accs, [ID |-> ParseInt(item[1]), Phone |-> item[2],
                                Balance |-> ParseInt(item[3])]),
                  Tail(lines))

\* the loop over the records of the file
RECURSIVE ImportLines(_, _)
ImportLines(accs, lines) ==
  IF lines = <<>> THEN [accounts |-> accs, err |-> ErrNil]
  ELSE LET line == Head(lines)
           item == Split(line, ";")
       IN  IF Len(line) <= 0 THEN [accounts |-> accs, err |-> ErrNil]
           ELSE IF Len(item) < 3 THEN [accounts |-> accs, err |-> Panic]
           ELSE ImportLines(Append(accs, [ID |-> ParseInt(item[1]), Phone |-> item[2],
                                          Balance |-> ParseInt(item[3])]),
                            Tail(lines))

\* ImportFromFile clearing the accounts before it appends the records
ImportFromFileReplaces(s, f) ==
  IF f = NoFile
  THEN [s |-> s, err |-> ErrNotExist, ret |-> 0, file |-> f]
  ELSE LET str == ReadFile(f, <<>>)
           r == ImportLines(<<>>, Split(str, "|"))
       IN  [s |-> [s EXCEPT !.accounts = r.accounts], err |-> r.err, ret |-> 0,
            file |-> f]

ImportFromFile(s, f) ==
  IF f = NoFile
  THEN [s |-> s, err |-> ErrNotExist, ret |-> 0, file |-> f]
  ELSE LET str == ReadFile(f, <<>>)
           r == ImportLines(s.accounts, Split(str, "|"))
       IN  [s |-> [s EXCEPT !.accounts = r.accounts], err |-> r.err, ret |-> 0,
            file |-> f]

(***************************************************************************)
(* The state machine: one action per exported method of Service.           *)
(***************************************************************************)
\* The files the path may hold before the service first touches it.
InitFiles ==
  { NoFile,
    <<"2", ";", "+", "2", ";", "1", "|", "|", "1", ";", "+", "1", ";", "0", "|">> }

\* a service just constructed
FreshService ==
  [nextAccountID |-> 0, accounts |-> <<>>, payments |-> <<>>, favorites |-> <<>>,
   uuids |-> 0]

Init ==
  /\ nextAccountID = 0
  /\ accounts = <<>>
  /\ payments = <<>>
  /\ favorites = <<>>
  /\ uuids = 0
  /\ file \in InitFiles
  /\ imported = FALSE
  /\ calls = 0
  /\ pc = [g \in Goroutines |-> "idle"]
  /\ frame = [g \in Goroutines |-> IdleFrame]
  /\ interleaved = FALSE
  /\ deposited = <<>>
  /\ rejectedTwice = FALSE

\* one more call is made and the service takes the state the call left
Step(r) ==
  /\ calls < MaxCalls
  /\ calls' = calls + 1
  /\ nextAccountID' = r.s.nextAccountID
  /\ accounts' = r.s.accounts
  /\ payments' = r.s.payments
  /\ favorites' = r.s.favorites
  /\ uuids' = r.s.uuids

CallRegisterAccount ==
  \E phone \in Phones :
    /\ Step(RegisterAccount(Svc, phone))
    /\ UNCHANGED <<file, imported, raceVars, ledgerVars>>

CallDeposit ==
  \E accountID \in AccountIDs, amount \in Amounts :
    /\ Step(Deposit(Svc, accountID, amount))
    /\ UNCHANGED <<file, imported, raceVars, ledgerVars>>

CallAddAccountWithBalance ==
  \E phone \in Phones, balance \in Amounts :
    /\ Step(AddAccountWithBalance(Svc, phone, balance))
    /\ UNCHANGED <<file, imported, raceVars, ledgerVars>>

CallPay ==
  \E accountID \in AccountIDs, amount \in Amounts, category \in Categories :
    /\ Step(Pay(Svc, accountID, amount, category))
    /\ UNCHANGED <<file, imported, raceVars, ledgerVars>>

CallReject ==
  \E paymentID \in UUIDs :
    /\ Step(Reject(Svc, paymentID))
    /\ UNCHANGED <<file, imported, raceVars, ledgerVars>>

CallRepeat ==
  \E paymentID \in UUIDs :
    /\ Step(Repeat(Svc, paymentID))
    /\ UNCHANGED <<file, imported, raceVars, ledgerVars>>

CallFavoritePayment ==
  \E paymentID \in UUIDs, name \in Names :
    /\ Step(FavoritePayment(Svc, paymentID, name))
    /\ UNCHANGED <<file, imported, raceVars, ledgerVars>>

CallPayFromFavorite ==
  \E favoriteID \in UUIDs :
    /\ Step(PayFromFavorite(Svc, favoriteID))
    /\ UNCHANGED <<file, imported, raceVars, ledgerVars>>

CallExportToFile ==
  LET r == ExportToFile(Svc, file)
  IN  /\ Step(r)
      /\ file' = r.file
      /\ UNCHANGED <<imported, raceVars, ledgerVars>>

CallImportFromFile ==
  LET r == ImportFromFile(Svc, file)
  IN  /\ Step(r)
      /\ file' = r.file
      /\ imported' = TRUE
      /\ UNCHANGED <<raceVars, ledgerVars>>

Next ==
  \/ CallRegisterAccount
  \/ CallDeposit
  \/ CallAddAccountWithBalance
  \/ CallPay
  \/ CallReject
  \/ CallRepeat
  \/ CallFavoritePayment
  \/ CallPayFromFavorite
  \/ CallExportToFile
  \/ CallImportFromFile

Spec == Init /\ [][Next]_vars

\* The service called without ImportFromFile and ExportToFile, no file at the path.
InitCore == Init /\ file = NoFile

NextCore ==
  \/ CallRegisterAccount
  \/ CallDeposit
  \/ CallAddAccountWithBalance
  \/ CallPay
  \/ CallReject
  \/ CallRepeat
  \/ CallFavoritePayment
  \/ CallPayFromFavorite

SpecCore == InitCore /\ [][NextCore]_vars

(***************************************************************************)
(* Two goroutines calling RegisterAccount and Pay on one Service with no   *)
(* lock: each statement of a method is a step, and s.nextAccountID++ and   *)
(* account.Balance -= amount are a read and a write; append and the scans  *)
(* over s.accounts are taken as one step each. Deposit is called while no  *)
(* goroutine is inside a call.                                             *)
(***************************************************************************)
\* goroutine g goes to statement at with the locals fr
Run(g, at, fr) ==
  /\ pc' = [pc EXCEPT ![g] = at]
  /\ frame' = [frame EXCEPT ![g] = fr]
  /\ interleaved' = (interleaved \/ \E h \in Goroutines \ {g} : pc[h] # "idle")
  /\ UNCHANGED <<favorites, file, imported, ledgerVars>>

Return(g) ==
  Run(g, "idle", IdleFrame)

GoRegisterAccount(g) ==
  \E phone \in Phones :
    /\ pc[g] = "idle"
    /\ calls < MaxCalls
    /\ calls' = calls + 1
    /\ Run(g, "RegisterAccount.scan", [IdleFrame EXCEPT !.phone = phone])
    /\ UNCHANGED <<nextAccountID, accounts, payments, uuids>>

\* for _, account := range s.accounts { if account.Phone == phone { return } }
RegisterAccountScan(g) ==
  /\ pc[g] = "RegisterAccount.scan"
  /\ IF \E i \in 1..Len(accounts) : accounts[i].Phone = frame[g].phone
     THEN Return(g)
     ELSE Run(g, "RegisterAccount.load", frame[g])
  /\ UNCHANGED <<nextAccountID, accounts, payments, uuids, calls>>

\* s.nextAccountID++, the read
RegisterAccountLoad(g) ==
  /\ pc[g] = "RegisterAccount.load"
  /\ Run(g, "RegisterAccount.store", [frame[g] EXCEPT !.read = nextAccountID])
  /\ UNCHANGED <<nextAccountID, accounts, payments, uuids, calls>>

\* s.nextAccountID++, the write
RegisterAccountStore(g) ==
  /\ pc[g] = "RegisterAccount.store"
  /\ nextAccountID' = frame[g].read + 1
  /\ Run(g, "RegisterAccount.new", frame[g])
  /\ UNCHANGED <<accounts, payments, uuids, calls>>

\* account := &types.Account{ID: s.nextAccountID, ...}
RegisterAccountNew(g) ==
  /\ pc[g] = "RegisterAccount.new"
  /\ Run(g, "RegisterAccount.append", [frame[g] EXCEPT !.read = nextAccountID])
  /\ UNCHANGED <<nextAccountID, accounts, payments, uuids, calls>>

\* s.accounts = append(s.accounts, account)
RegisterAccountAppend(g) ==
  /\ pc[g] = "RegisterAccount.append"
  /\ accounts' = Append(accounts, [ID |-> frame[g].read, Phone |-> frame[g].phone,
                                   Balance |-> 0])
  /\ Return(g)
  /\ UNCHANGED <<nextAccountID, payments, uuids, calls>>

GoPay(g) ==
  \E accountID \in AccountIDs, amount \in Amounts, category \in Categories :
    /\ pc[g] = "idle"
    /\ calls < MaxCalls
    /\ calls' = calls + 1
    /\ Run(g, "Pay.find", [IdleFrame EXCEPT !.accountID = accountID,
                                            !.amount = amount,
                                            !.category = category])
    /\ UNCHANGED <<nextAccountID, accounts, payments, uuids>>

\* if amount <= 0 { return }; account, err := s.FindAccountByID(accountID)
PayFind(g) ==
  /\ pc[g] = "Pay.find"
  /\ LET f == FindAccountByID(Svc, frame[g].accountID)
     IN  IF frame[g].amount <= 0 \/ f.err # ErrNil
         THEN Return(g)
         ELSE Run(g, "Pay.check", [frame[g] EXCEPT !.account = f.ret])
  /\ UNCHANGED <<nextAccountID, accounts, payments, uuids, calls>>

\* the statement going on to the debit whatever the balance is
PayCheckPasses(g) ==
  /\ pc[g] = "Pay.check"
  /\ Run(g, "Pay.load", frame[g])
  /\ UNCHANGED <<nextAccountID, accounts, payments, uuids, calls>>

\* if account.Balance < amount { return nil, ErrNotEnoughBalance }
PayCheck(g) ==
  /\ pc[g] = "Pay.check"
  /\ IF accounts[frame[g].account].Balance < frame[g].amount
     THEN Return(g)
     ELSE Run(g, "Pay.load", frame[g])
  /\ UNCHANGED <<nextAccountID, accounts, payments, uuids, calls>>

\* account.Balance -= amount, the read
PayLoad(g) ==
  /\ pc[g] = "Pay.load"
  /\ Run(g, "Pay.store", [frame[g] EXCEPT !.read = accounts[frame[g].account].Balance])
  /\ UNCHANGED <<nextAccountID, accounts, payments, uuids, calls>>

\* account.Balance -= amount, the write
PayStore(g) ==
  /\ pc[g] = "Pay.store"
  /\ accounts' = [accounts EXCEPT
                    ![frame[g].account].Balance = frame[g].read - frame[g].amount]
  /\ Run(g, "Pay.append", frame[g])
  /\ UNCHANGED <<nextAccountID, payments, uuids, calls>>

\* paymentID := uuid.New().String(); s.payments = append(s.payments, payment)
PayAppend(g) ==
  /\ pc[g] = "Pay.append"
  /\ uuids' = NewUUID(Svc)
  /\ payments' = Append(payments, [ID |-> NewUUID(Svc),
                                   AccountID |-> frame[g].accountID,
                                   Amount |-> frame[g].amount,
                                   Category |-> frame[g].category,
                                   Status |-> PaymentStatusInProgress])
  /\ Return(g)
  /\ UNCHANGED <<nextAccountID, accounts, calls>>

\* Deposit called while no goroutine is inside a call
SerialDeposit ==
  /\ \A g \in Goroutines : pc[g] = "idle"
  /\ CallDeposit

InitRace == Init /\ file = NoFile

NextRace ==
  \/ \E g \in Goroutines : GoRegisterAccount(g)
  \/ \E g \in Goroutines : RegisterAccountScan(g)
  \/ \E g \in Goroutines : RegisterAccountLoad(g)
  \/ \E g \in Goroutines : RegisterAccountStore(g)
  \/ \E g \in Goroutines : RegisterAccountNew(g)
  \/ \E g \in Goroutines : RegisterAccountAppend(g)
  \/ \E g \in Goroutines : GoPay(g)
  \/ \E g \in Goroutines : PayFind(g)
  \/ \E g \in Goroutines : PayCheck(g)
  \/ \E g \in Goroutines : PayLoad(g)
  \/ \E g \in Goroutines : PayStore(g)
  \/ \E g \in Goroutines : PayAppend(g)
  \/ SerialDeposit

SpecRace == InitRace /\ [][NextRace]_vars

(***************************************************************************)
(* The service with a ledger kept beside it: per account (by position in   *)
(* s.accounts) the sum of the amounts Deposit has added, and whether a     *)
(* payment has been rejected a second time.                                *)
(***************************************************************************)
LedgerRegisterAccount ==
  \E phone \in Phones :
    LET r == RegisterAccount(Svc, phone)
    IN  /\ Step(r)
        /\ deposited' = IF r.err = ErrNil THEN Append(deposited, 0) ELSE deposited
        /\ UNCHANGED <<file, imported, raceVars, rejectedTwice>>

LedgerDeposit ==
  \E accountID \in AccountIDs, amount \in Amounts :
    LET r == Deposit(Svc, accountID, amount)
        f == FindAccountByID(Svc, accountID)
    IN  /\ Step(r)
        /\ deposited' = IF r.err = ErrNil
                        THEN [deposited EXCEPT ![f.ret] = @ + amount]
                        ELSE deposited
        /\ UNCHANGED <<file, imported, raceVars, rejectedTwice>>

\* the account RegisterAccount appended stays when the Deposit after it fails
LedgerAddAccountWithBalance ==
  \E phone \in Phones, balance \in Amounts :
    LET r == AddAccountWithBalance(Svc, phone, balance)
    IN  /\ Step(r)
        /\ deposited' = IF Len(r.s.accounts) > Len(accounts)
                        THEN Append(deposited, IF r.err = ErrNil THEN balance ELSE 0)
                        ELSE deposited
        /\ UNCHANGED <<file, imported, raceVars, rejectedTwice>>

LedgerReject ==
  \E paymentID \in UUIDs :
    LET r == Reject(Svc, paymentID)
        fp == FindPaymentByID(Svc, paymentID)
    IN  /\ Step(r)
        /\ rejectedTwice' = (rejectedTwice \/
                               (r.err = ErrNil
                                  /\ payments[fp.ret].Status = PaymentStatusFail))
        /\ UNCHANGED <<file, imported, raceVars, deposited>>

\* the accounts an import appends have had no Deposit
LedgerImportFromFile ==
  LET r == ImportFromFile(Svc, file)
  IN  /\ Step(r)
      /\ file' = r.file
      /\ imported' = TRUE
      /\ deposited' = deposited \o [i \in 1..(Len(r.s.accounts) - Len(accounts)) |-> 0]
      /\ UNCHANGED <<raceVars, rejectedTwice>>

NextLedger ==
  \/ LedgerRegisterAccount
  \/ LedgerDeposit
  \/ LedgerAddAccountWithBalance
  \/ CallPay
  \/ LedgerReject
  \/ CallRepeat
  \/ CallFavoritePayment
  \/ CallPayFromFavorite
  \/ LedgerImportFromFile

SpecLedger == Init /\ [][NextLedger]_vars

(***************************************************************************)
(* Properties.                                                             *)
(***************************************************************************)
\* the position of the account a lookup by accountID reaches, 0 when there is none
Owner(accountID) ==
  FirstIndex({k \in 1..Len(accounts) : accounts[k].ID = accountID})

\* C1: in every state reached by RegisterAccount, Deposit, Pay, Reject, Repeat,
\* FavoritePayment, PayFromFavorite and AddAccountWithBalance calls with any
\* arguments, every account's Balance is >= 0.
C1_BalanceNonNegative ==
  \A i \in 1..Len(accounts) : accounts[i].Balance >= 0

\* an account whose whole balance has been paid out and whose payment is in progress
C1_Witness ==
  \E i \in 1..Len(accounts), k \in 1..Len(payments) :
    /\ accounts[i].Balance = 0
    /\ payments[k].AccountID = accounts[i].ID
    /\ payments[k].Status = PaymentStatusInProgress
    /\ payments[k].Amount = 2

\* C2: for an existing account and amount > 0, Pay fails with ErrNotEnoughBalance
\* exactly when amount > Balance (amount = Balance succeeds and leaves 0), and a
\* failed Pay leaves the service as it was.
C2_PayNotEnoughBalance ==
  \A accountID \in AccountIDs, amount \in Amounts, category \in Categories :
    (amount > 0 /\ Owner(accountID) # 0) =>
      LET r == Pay(Svc, accountID, amount, category)
          balance == accounts[Owner(accountID)].Balance
      IN  /\ (r.err = ErrNotEnoughBalance) <=> (amount > balance)
          /\ (amount > balance) => (r.s = Svc /\ r.ret = 0)
          /\ (amount <= balance) => r.err = ErrNil
          /\ (amount = balance) => r.s.accounts[Owner(accountID)].Balance = 0

\* an account that has paid before, where one amount is refused and the amount equal
\* to the balance is accepted
C2_Witness ==
  \E i \in 1..Len(accounts), category \in Categories :
    /\ Owner(accounts[i].ID) = i
    /\ accounts[i].Balance = 1
    /\ \E k \in 1..Len(payments) : payments[k].AccountID = accounts[i].ID
    /\ Pay(Svc, accounts[i].ID, 2, category).err = ErrNotEnoughBalance
    /\ Pay(Svc, accounts[i].ID, 1, category).err = ErrNil

\* C3: for every payment p, whatever its status, Reject(p.ID) succeeds, credits the
\* owning account by p.Amount and leaves p Failed; a second Reject credits it again,
\* 2 * p.Amount in total.
C3_RejectRefunds ==
  \A k \in 1..Len(payments) :
    LET p == payments[k]
        o == Owner(p.AccountID)
        r1 == Reject(Svc, p.ID)
        r2 == Reject(r1.s, p.ID)
    IN  /\ o # 0
        /\ r1.err = ErrNil
        /\ r1.s.accounts[o].Balance = accounts[o].Balance + p.Amount
        /\ r1.s.payments[k].Status = PaymentStatusFail
        /\ r2.err = ErrNil
        /\ r2.s.accounts[o].Balance = accounts[o].Balance + 2 * p.Amount
        /\ r2.s.payments[k].Status = PaymentStatusFail

\* a payment that has been rejected already, and one that has not
C3_Witness ==
  /\ \E k \in 1..Len(payments) : payments[k].Status = PaymentStatusFail
  /\ \E k \in 1..Len(payments) : payments[k].Status = PaymentStatusInProgress

\* a step keeps every payment there is, with its ID, AccountID, Amount and Category,
\* and its Status as it was or changed from in progress to failed
PaymentsKept ==
  /\ Len(payments') >= Len(payments)
  /\ \A k \in 1..Len(payments) :
       /\ payments'[k].ID = payments[k].ID
       /\ payments'[k].AccountID = payments[k].AccountID
       /\ payments'[k].Amount = payments[k].Amount
       /\ payments'[k].Category = payments[k].Category
       /\ \/ payments'[k].Status = payments[k].Status
          \/ /\ payments[k].Status = PaymentStatusInProgress
             /\ payments'[k].Status = PaymentStatusFail

\* a step that changes a payment there is leaves the payments a Reject call leaves
OnlyRejectChanges ==
  (\E k \in 1..Len(payments) : k <= Len(payments') => payments'[k] # payments[k]) =>
    \E paymentID \in UUIDs :
      LET r == Reject(Svc, paymentID)
      IN  r.err = ErrNil /\ payments' = r.s.payments /\ accounts' = r.s.accounts

\* C4: in every step a payment once appended stays, its ID, AccountID, Amount and
\* Category do not change, its Status stays or goes from InProgress to Failed (never
\* back), and only a Reject step changes a payment there is.
C4_PaymentsStable == [][PaymentsKept /\ OnlyRejectChanges]_vars

\* a rejected payment beside one in progress that was appended after it
C4_Witness ==
  /\ Len(payments) >= 2
  /\ payments[1].Status = PaymentStatusFail
  /\ payments[Len(payments)].Status = PaymentStatusInProgress

\* C5: RegisterAccount with a phone some account has fails with ErrPhoneRegistered
\* and leaves the accounts and the account-ID counter as they were.
C5_RegisterDuplicatePhone ==
  \A phone \in Phones :
    (\E i \in 1..Len(accounts) : accounts[i].Phone = phone) =>
      LET r == RegisterAccount(Svc, phone)
      IN  /\ r.err = ErrPhoneRegistered
          /\ r.ret = 0
          /\ r.s.accounts = accounts
          /\ r.s.nextAccountID = nextAccountID

\* the first registration has been deposited to and its phone is offered again
C5_Witness ==
  /\ Len(accounts) >= 1
  /\ accounts[1].ID = 1
  /\ accounts[1].Balance > 0
  /\ RegisterAccount(Svc, accounts[1].Phone).err = ErrPhoneRegistered

\* C6, as claimed: in every state any sequence of operations reaches, ImportFromFile
\* included, no two accounts have the same ID.
C6_UniqueAccountIDs ==
  \A i, j \in 1..Len(accounts) : i # j => accounts[i].ID # accounts[j].ID

\* C6, amended: in every state reached by a sequence of operations without
\* ImportFromFile, no two accounts have the same ID.
C6_UniqueAccountIDsWithoutImport == (~imported) => C6_UniqueAccountIDs

\* two registered accounts that have been exported and never imported
C6_Witness ==
  /\ ~imported
  /\ Len(accounts) = 2
  /\ file = ExportRecords(accounts)

\* C7: in every state reached by a sequence of operations without ImportFromFile,
\* no two accounts have the same Phone.
C7_UniquePhones ==
  (~imported) =>
    \A i, j \in 1..Len(accounts) : i # j => accounts[i].Phone # accounts[j].Phone

\* every phone is registered once, none was imported, and each is refused again
C7_Witness ==
  /\ ~imported
  /\ \A phone \in Phones :
       /\ Cardinality({i \in 1..Len(accounts) : accounts[i].Phone = phone}) = 1
       /\ RegisterAccount(Svc, phone).err = ErrPhoneRegistered

\* C8: without ImportFromFile the accounts hold the IDs 1..n in insertion order and
\* the counter is n; a successful RegisterAccount returns the account with ID n + 1
\* and Balance 0, and a failed one leaves the counter as it was.
C8_SequentialIDs ==
  (~imported) =>
    /\ nextAccountID = Len(accounts)
    /\ \A i \in 1..Len(accounts) : accounts[i].ID = i
    /\ \A phone \in Phones :
         LET r == RegisterAccount(Svc, phone)
         IN  IF r.err = ErrNil
             THEN /\ r.ret = Len(accounts) + 1
                  /\ Len(r.s.accounts) = Len(accounts) + 1
                  /\ r.s.accounts[r.ret] =
                       [ID |-> Len(accounts) + 1, Phone |-> phone, Balance |-> 0]
                  /\ r.s.nextAccountID = Len(accounts) + 1
             ELSE /\ r.ret = 0
                  /\ r.s.nextAccountID = nextAccountID
                  /\ r.s.accounts = accounts

\* one account is registered, its phone is refused and the next phone gets ID 2
C8_Witness ==
  /\ ~imported
  /\ Len(accounts) = 1
  /\ \E phone \in Phones : RegisterAccount(Svc, phone).err = ErrPhoneRegistered
  /\ \E phone \in Phones :
       LET r == RegisterAccount(Svc, phone)
       IN  r.err = ErrNil /\ r.s.accounts[r.ret].ID = 2

\* C9: Deposit with amount <= 0 fails with ErrAmountMustBePositive whether or not the
\* account exists and changes nothing; with amount > 0 it fails with
\* ErrAccountNotFound when no account matches and otherwise adds amount to the
\* balance of the account the lookup reaches and to nothing else.
C9_Deposit ==
  \A accountID \in AccountIDs, amount \in Amounts :
    LET r == Deposit(Svc, accountID, amount)
        o == Owner(accountID)
    IN  /\ (amount <= 0) => (r.err = ErrAmountMustBePositive /\ r.s = Svc)
        /\ (amount > 0 /\ o = 0) => (r.err = ErrAccountNotFound /\ r.s = Svc)
        /\ (amount > 0 /\ o # 0) =>
             /\ r.err = ErrNil
             /\ r.s = [Svc EXCEPT !.accounts[o].Balance = accounts[o].Balance + amount]

\* a deposit has been made, and there are an account and an unknown ID to call with
C9_Witness ==
  /\ \E i \in 1..Len(accounts) : accounts[i].Balance > 1
  /\ \E accountID \in AccountIDs : Owner(accountID) = 0
  /\ \E accountID \in AccountIDs :
       /\ Owner(accountID) # 0
       /\ Deposit(Svc, accountID, 0).err = ErrAmountMustBePositive

\* C10: AddAccountWithBalance returns ErrCannotRegisterAccount for a registered phone
\* and changes nothing; for a new phone with balance <= 0 it returns
\* ErrCannotDepositAccount and the new account stays, with Balance 0 and the counter
\* advanced, so the phone is refused afterwards.
C10_AddAccountWithBalance ==
  \A phone \in Phones, balance \in Amounts :
    LET r == AddAccountWithBalance(Svc, phone, balance)
        known == \E i \in 1..Len(accounts) : accounts[i].Phone = phone
    IN  /\ known => (r.err = ErrCannotRegisterAccount /\ r.s = Svc /\ r.ret = 0)
        /\ (~known /\ balance <= 0) =>
             /\ r.err = ErrCannotDepositAccount
             /\ r.ret = 0
             /\ r.s.nextAccountID = nextAccountID + 1
             /\ r.s.accounts =
                  Append(accounts,
                         [ID |-> nextAccountID + 1, Phone |-> phone, Balance |-> 0])
             /\ RegisterAccount(r.s, phone).err = ErrPhoneRegistered
             /\ \A again \in Amounts :
                  AddAccountWithBalance(r.s, phone, again).err = ErrCannotRegisterAccount

\* an account left with Balance 0, whose phone is refused, beside a phone still new
C10_Witness ==
  /\ \E i \in 1..Len(accounts) :
       /\ accounts[i].Balance = 0
       /\ AddAccountWithBalance(Svc, accounts[i].Phone, 1).err = ErrCannotRegisterAccount
  /\ \E phone \in Phones :
       AddAccountWithBalance(Svc, phone, 0).err = ErrCannotDepositAccount

\* C11: for a payment p whose account can afford p.Amount, Repeat(p.ID) appends a
\* payment with an ID no payment has, p's AccountID, Amount and Category and Status
\* InProgress (also when p is Failed), debits the account by p.Amount and leaves p
\* as it is; when the account cannot afford it, Repeat fails with
\* ErrNotEnoughBalance and changes nothing.
C11_Repeat ==
  \A k \in 1..Len(payments) :
    LET p == payments[k]
        o == Owner(p.AccountID)
        n == Len(payments) + 1
        r == Repeat(Svc, p.ID)
    IN  /\ o # 0
        /\ IF accounts[o].Balance >= p.Amount
           THEN /\ r.err = ErrNil
                /\ r.ret = n
                /\ Len(r.s.payments) = n
                /\ \A j \in 1..Len(payments) :
                     /\ r.s.payments[j] = payments[j]
                     /\ r.s.payments[n].ID # payments[j].ID
                /\ r.s.payments[n].AccountID = p.AccountID
                /\ r.s.payments[n].Amount = p.Amount
                /\ r.s.payments[n].Category = p.Category
                /\ r.s.payments[n].Status = PaymentStatusInProgress
                /\ r.s.accounts =
                     [accounts EXCEPT ![o].Balance = accounts[o].Balance - p.Amount]
                /\ r.s.favorites = favorites
                /\ r.s.nextAccountID = nextAccountID
           ELSE /\ r.err = ErrNotEnoughBalance
                /\ r.ret = 0
                /\ r.s = Svc

\* a rejected payment whose account can afford it again, and a payment in progress
\* whose account cannot
C11_Witness ==
  /\ \E k \in 1..Len(payments) :
       /\ payments[k].Status = PaymentStatusFail
       /\ accounts[Owner(payments[k].AccountID)].Balance >= payments[k].Amount
       /\ Repeat(Svc, payments[k].ID).err = ErrNil
  /\ \E k \in 1..Len(payments) :
       /\ payments[k].Status = PaymentStatusInProgress
       /\ Repeat(Svc, payments[k].ID).err = ErrNotEnoughBalance

\* C12: for the accounts of every state reached without ImportFromFile (the empty
\* collection and balances of 0 among them), ExportToFile and then ImportFromFile
\* into a fresh service return no error and give the same accounts: same length,
\* same order, same ID, Phone and Balance.
C12_ExportImportRoundTrip ==
  (~imported) =>
    LET e == ExportToFile(Svc, file)
        r == ImportFromFile(FreshService, e.file)
    IN  /\ e.err = ErrNil
        /\ r.err = ErrNil
        /\ Len(r.s.accounts) = Len(accounts)
        /\ \A i \in 1..Len(accounts) :
             /\ r.s.accounts[i].ID = accounts[i].ID
             /\ r.s.accounts[i].Phone = accounts[i].Phone
             /\ r.s.accounts[i].Balance = accounts[i].Balance

\* two accounts, one with Balance 0 and one with more, exported as they are
C12_Witness ==
  /\ ~imported
  /\ Len(accounts) = 2
  /\ \E i \in 1..2 : accounts[i].Balance = 0
  /\ \E i \in 1..2 : accounts[i].Balance > 1
  /\ file = ExportRecords(accounts)
  /\ ImportFromFile(FreshService, file).s.accounts = accounts

\* FavoritePayment on a payment there is appends a favorite with an ID nothing has
\* and the payment's AccountID, Amount and Category, and changes no account and no
\* payment
FavoriteSnapshots ==
  \A k \in 1..Len(payments), name \in Names :
    LET p == payments[k]
        n == Len(favorites) + 1
        r == FavoritePayment(Svc, p.ID, name)
    IN  /\ r.err = ErrNil
        /\ r.ret = n
        /\ r.s.favorites =
             Append(favorites, [ID |-> r.s.favorites[n].ID, AccountID |-> p.AccountID,
                                Name |-> name, Amount |-> p.Amount,
                                Category |-> p.Category])
        /\ \A j \in 1..Len(payments) : r.s.favorites[n].ID # payments[j].ID
        /\ \A j \in 1..Len(favorites) : r.s.favorites[n].ID # favorites[j].ID
        /\ r.s.accounts = accounts
        /\ r.s.payments = payments
        /\ r.s.nextAccountID = nextAccountID

\* PayFromFavorite on a favorite whose account can afford it appends an InProgress
\* payment with the favorite's AccountID, Amount and Category and debits the account
PayFromFavoritePays ==
  \A k \in 1..Len(favorites) :
    LET f == favorites[k]
        o == Owner(f.AccountID)
        n == Len(payments) + 1
        r == PayFromFavorite(Svc, f.ID)
    IN  (o # 0 /\ accounts[o].Balance >= f.Amount) =>
          /\ r.err = ErrNil
          /\ r.ret = n
          /\ r.s.payments =
               Append(payments, [ID |-> r.s.payments[n].ID, AccountID |-> f.AccountID,
                                 Amount |-> f.Amount, Category |-> f.Category,
                                 Status |-> PaymentStatusInProgress])
          /\ r.s.accounts = [accounts EXCEPT ![o].Balance = accounts[o].Balance - f.Amount]
          /\ r.s.favorites = favorites

\* a step keeps every favorite there is as it is
FavoritesKept ==
  /\ Len(favorites') >= Len(favorites)
  /\ \A k \in 1..Len(favorites) : favorites'[k] = favorites[k]

\* C13: FavoritePayment appends a favorite with a fresh ID that copies the payment's
\* AccountID, Amount and Category and changes no account or payment; favorites are
\* never changed or removed afterwards; PayFromFavorite creates an InProgress payment
\* with the favorite's AccountID, Amount and Category and debits the account by its
\* Amount, also after the payment the favorite was made from has been rejected.
C13_Favorites ==
  /\ [](FavoriteSnapshots /\ PayFromFavoritePays)
  /\ [][FavoritesKept]_vars

\* Pay 2, Reject, FavoritePayment, PayFromFavorite from a balance of 2: the favorite
\* of the rejected payment has been paid from and the balance is 0 again
C13_Witness ==
  \E k \in 1..Len(favorites), i \in 1..Len(payments), j \in 1..Len(payments) :
    /\ payments[i].Status = PaymentStatusFail
    /\ payments[i].ID < favorites[k].ID
    /\ payments[i].AccountID = favorites[k].AccountID
    /\ payments[i].Amount = 2 /\ favorites[k].Amount = 2
    /\ payments[j].ID > favorites[k].ID
    /\ payments[j].AccountID = favorites[k].AccountID
    /\ payments[j].Amount = favorites[k].Amount
    /\ payments[j].Status = PaymentStatusInProgress
    /\ accounts[Owner(favorites[k].AccountID)].Balance = 0

\* C14: the AccountID of every payment and of every favorite is the ID of an account
\* there is, so Reject of a payment there is does not return ErrAccountNotFound, and
\* neither PayFromFavorite nor Repeat returns ErrAccountNotFound.
C14_ReferentialIntegrity ==
  /\ \A k \in 1..Len(payments) :
       /\ \E i \in 1..Len(accounts) : accounts[i].ID = payments[k].AccountID
       /\ Reject(Svc, payments[k].ID).err # ErrAccountNotFound
  /\ \A k \in 1..Len(favorites) :
       \E i \in 1..Len(accounts) : accounts[i].ID = favorites[k].AccountID
  /\ \A id \in UUIDs :
       /\ Repeat(Svc, id).err # ErrAccountNotFound
       /\ PayFromFavorite(Svc, id).err # ErrAccountNotFound

\* a payment and a favorite of the second of two accounts, after an import, with
\* Reject, Repeat and PayFromFavorite going through the account lookup
C14_Witness ==
  /\ imported
  /\ Len(accounts) >= 2
  /\ \E k \in 1..Len(payments), j \in 1..Len(favorites) :
       /\ payments[k].AccountID = 2
       /\ favorites[j].AccountID = 2
       /\ Reject(Svc, payments[k].ID).err = ErrNil
       /\ Repeat(Svc, payments[k].ID).err \in {ErrNil, ErrNotEnoughBalance}
       /\ PayFromFavorite(Svc, favorites[j].ID).err \in {ErrNil, ErrNotEnoughBalance}

\* the accounts of the state are in t, each with a balance that is not smaller
NoBalanceDecrease(t) ==
  /\ Len(t.accounts) >= Len(accounts)
  /\ \A i \in 1..Len(accounts) : t.accounts[i].Balance >= accounts[i].Balance

\* no call of a method other than Pay, Repeat and PayFromFavorite makes a balance
\* smaller
OthersNeverDecrease ==
  /\ \A phone \in Phones : NoBalanceDecrease(RegisterAccount(Svc, phone).s)
  /\ \A accountID \in AccountIDs, amount \in Amounts :
       NoBalanceDecrease(Deposit(Svc, accountID, amount).s)
  /\ \A phone \in Phones, balance \in Amounts :
       NoBalanceDecrease(AddAccountWithBalance(Svc, phone, balance).s)
  /\ \A id \in UUIDs, name \in Names :
       /\ NoBalanceDecrease(Reject(Svc, id).s)
       /\ NoBalanceDecrease(FavoritePayment(Svc, id, name).s)
  /\ NoBalanceDecrease(ExportToFile(Svc, file).s)
  /\ NoBalanceDecrease(ImportFromFile(Svc, file).s)

\* a step that makes a balance smaller appends one InProgress payment, and the one
\* balance that changes is of the payment's account and smaller by its Amount
DecreaseIsPay ==
  (\E i \in 1..Len(accounts) :
     i > Len(accounts') \/ accounts'[i].Balance < accounts[i].Balance) =>
    LET n == Len(payments) + 1
    IN  /\ Len(payments') = n
        /\ \A k \in 1..Len(payments) : payments'[k] = payments[k]
        /\ payments'[n].Status = PaymentStatusInProgress
        /\ payments'[n].Amount > 0
        /\ Len(accounts') = Len(accounts)
        /\ \E o \in 1..Len(accounts) :
             /\ accounts[o].ID = payments'[n].AccountID
             /\ accounts' = [accounts EXCEPT
                               ![o].Balance = accounts[o].Balance - payments'[n].Amount]

\* C15: a step in which a balance gets smaller is a successful Pay (called directly
\* or through Repeat or PayFromFavorite): it appends exactly one payment and the
\* balance is smaller by that payment's Amount. Deposit, Reject, RegisterAccount,
\* AddAccountWithBalance, FavoritePayment, ExportToFile and ImportFromFile never
\* make the balance of an account there is smaller.
C15_OnlyPayDecreases ==
  /\ []OthersNeverDecrease
  /\ [][DecreaseIsPay]_vars

\* a balance has been made smaller by a payment, and Pay, Repeat and PayFromFavorite
\* can each make it smaller again, while Reject makes it greater
C15_Witness ==
  \E k \in 1..Len(payments), j \in 1..Len(favorites) :
    LET o == Owner(payments[k].AccountID)
    IN  /\ payments[k].Status = PaymentStatusInProgress
        /\ Pay(Svc, payments[k].AccountID, 1, "food").s.accounts[o].Balance
             = accounts[o].Balance - 1
        /\ Repeat(Svc, payments[k].ID).s.accounts[o].Balance
             = accounts[o].Balance - payments[k].Amount
        /\ favorites[j].AccountID = payments[k].AccountID
        /\ PayFromFavorite(Svc, favorites[j].ID).s.accounts[o].Balance
             = accounts[o].Balance - favorites[j].Amount
        /\ Reject(Svc, payments[k].ID).s.accounts[o].Balance > accounts[o].Balance

\* the call failed with err, returned nothing and left the service as it was
FailsUntouched(r, err) ==
  /\ r.err = err
  /\ r.ret = 0
  /\ r.s = Svc

\* C16: a failed lookup leaves the state untouched: Reject, Repeat and FavoritePayment
\* with an ID no payment has return ErrPaymentNotFound, PayFromFavorite with an ID no
\* favorite has returns ErrFavoriteNotFound, Pay with a positive amount and an ID no
\* account has returns ErrAccountNotFound, Pay with an amount that is not positive
\* returns ErrAmountMustBePositive also when no account has the ID; accounts,
\* payments, favorites and the account ID counter are the same afterwards.
C16_LookupFailures ==
  /\ \A id \in UUIDs :
       /\ (\A k \in 1..Len(payments) : payments[k].ID # id) =>
            /\ FailsUntouched(Reject(Svc, id), ErrPaymentNotFound)
            /\ FailsUntouched(Repeat(Svc, id), ErrPaymentNotFound)
            /\ \A name \in Names :
                 FailsUntouched(FavoritePayment(Svc, id, name), ErrPaymentNotFound)
       /\ (\A k \in 1..Len(favorites) : favorites[k].ID # id) =>
            FailsUntouched(PayFromFavorite(Svc, id), ErrFavoriteNotFound)
  /\ \A accountID \in AccountIDs, amount \in Amounts, category \in Categories :
       /\ amount <= 0 =>
            FailsUntouched(Pay(Svc, accountID, amount, category), ErrAmountMustBePositive)
       /\ (amount > 0 /\ \A i \in 1..Len(accounts) : accounts[i].ID # accountID) =>
            FailsUntouched(Pay(Svc, accountID, amount, category), ErrAccountNotFound)

\* accounts, payments and favorites there are, with the ID of a favorite that no
\* payment has, the ID of a payment that no favorite has, and an ID no account has
C16_Witness ==
  /\ Len(accounts) > 0 /\ Len(payments) > 0 /\ Len(favorites) > 0
  /\ Reject(Svc, favorites[1].ID).err = ErrPaymentNotFound
  /\ Repeat(Svc, favorites[1].ID).err = ErrPaymentNotFound
  /\ FavoritePayment(Svc, favorites[1].ID, "lunch").err = ErrPaymentNotFound
  /\ PayFromFavorite(Svc, payments[1].ID).err = ErrFavoriteNotFound
  /\ \E accountID \in AccountIDs :
       /\ Pay(Svc, accountID, 1, "food").err = ErrAccountNotFound
       /\ Pay(Svc, accountID, 0, "food").err = ErrAmountMustBePositive
       /\ Pay(Svc, accountID, -1, "food").err = ErrAmountMustBePositive

\* C17: ImportFromFile is additive: after an import that returns no error the accounts
\* there were are an unchanged prefix of the accounts, the records of the file follow
\* in the order of the file, and payments, favorites and the account ID counter are
\* unchanged; so importing the service's own export doubles its accounts, and the
\* next RegisterAccount takes its ID from the old counter.
C17_ImportAdditive ==
  LET r == ImportFromFile(Svc, file)
      e == ExportToFile(Svc, file)
      d == ImportFromFile(Svc, e.file)
  IN  /\ r.err = ErrNil =>
           /\ r.s.accounts = accounts \o ImportFromFile(FreshService, file).s.accounts
           /\ r.s.payments = payments
           /\ r.s.favorites = favorites
           /\ r.s.nextAccountID = nextAccountID
      /\ d.err = ErrNil
      /\ d.s.accounts = accounts \o accounts
      /\ d.s.nextAccountID = nextAccountID
      /\ \A phone \in Phones :
           LET g == RegisterAccount(d.s, phone)
           IN  g.err = ErrNil =>
                 d.s.accounts \o <<[ID |-> nextAccountID + 1, Phone |-> phone,
                                    Balance |-> 0]>> = g.s.accounts

\* the service imported its own export (an account with a payment and a favorite):
\* the account is there twice, the counter is the one of before the import, and
\* RegisterAccount gives the next account the ID after it
C17_Witness ==
  /\ imported
  /\ Len(accounts) = 2
  /\ file = ExportRecord(accounts[1])
  /\ accounts[1] = accounts[2]
  /\ nextAccountID = 1
  /\ Len(payments) > 0
  /\ Len(favorites) > 0
  /\ \E phone \in Phones :
       LET g == RegisterAccount(Svc, phone)
       IN  g.err = ErrNil /\ g.s.accounts[3].ID = 2

\* a file with two records, the first followed by two separators
TwoSeparators ==
  <<"2", ";", "+", "2", ";", "1", "|", "|", "1", ";", "+", "1", ";", "0", "|">>

\* C18: ImportFromFile stops at an empty record (the file is empty, the segment after
\* the last '|', or two '|' in a row) and returns no error: the records before the
\* empty one are imported, the records after it are not.
C18_EmptyRecordStops ==
  file # NoFile =>
    LET r == ImportFromFile(Svc, file)
        lines == Split(file, "|")
        stop == FirstIndex({i \in 1..Len(lines) : lines[i] = <<>>})
    IN  /\ stop # 0
        /\ r.err = ErrNil
        /\ Len(r.s.accounts) = Len(accounts) + stop - 1
        /\ \A i \in 1..Len(accounts) : r.s.accounts[i] = accounts[i]
        /\ \A j \in 1..(stop - 1) :
             LET item == Split(lines[j], ";")
             IN  r.s.accounts[Len(accounts) + j] =
                   [ID |-> ParseInt(item[1]), Phone |-> item[2],
                    Balance |-> ParseInt(item[3])]
        /\ file = <<>> => r.s = Svc
        /\ file = ExportRecords(accounts) => stop = Len(accounts) + 1
        /\ file = TwoSeparators =>
             r.s.accounts = accounts \o <<[ID |-> 2, Phone |-> <<"+", "2">>,
                                          Balance |-> 1]>>

\* the file with two separators in a row has been imported: the record in front of
\* them is an account, the record behind them is not
C18_Witness ==
  /\ imported
  /\ file = TwoSeparators
  /\ accounts = <<[ID |-> 2, Phone |-> <<"+", "2">>, Balance |-> 1]>>
  /\ ImportFromFile(Svc, <<>>).err = ErrNil

\* C19: RegisterAccount and Pay read, then write, with no lock. When no goroutine
\* runs while another is inside a call, no balance is negative and no two accounts
\* have the same ID or the same phone; interleaved calls reach those states.
C19_SerializedIsSafe ==
  (~interleaved) =>
    /\ \A i \in 1..Len(accounts) : accounts[i].Balance >= 0
    /\ \A i, j \in 1..Len(accounts) :
         i # j => /\ accounts[i].ID # accounts[j].ID
                  /\ accounts[i].Phone # accounts[j].Phone

\* two RegisterAccount calls have left two accounts with one ID and one phone, and
\* two Pay calls of 1 and 2 from a balance of 2 have both succeeded: both payments
\* are there and the balance is -1
C19_Witness ==
  /\ interleaved
  /\ \A g \in Goroutines : pc[g] = "idle"
  /\ Len(accounts) = 2
  /\ accounts[1].ID = accounts[2].ID
  /\ accounts[1].Phone = accounts[2].Phone
  /\ accounts[1].Balance = -1
  /\ Len(payments) = 2
  /\ {payments[1].Amount, payments[2].Amount} = {1, 2}
  /\ \A k \in 1..2 : /\ payments[k].AccountID = accounts[1].ID
                     /\ payments[k].Status = PaymentStatusInProgress

\* the sum of the Amounts of the first k payments that are InProgress and of accountID
RECURSIVE InProgressSum(_, _)
InProgressSum(accountID, k) ==
  IF k = 0 THEN 0
  ELSE InProgressSum(accountID, k - 1)
         + (IF /\ payments[k].AccountID = accountID
               /\ payments[k].Status = PaymentStatusInProgress
            THEN payments[k].Amount ELSE 0)

\* C20: in every state reached from a fresh service without ImportFromFile and with no
\* payment rejected twice, the Balance of every account is the sum of the amounts
\* deposited to it minus the sum of the Amounts of its InProgress payments.
C20_MoneyConservation ==
  (~imported /\ ~rejectedTwice) =>
    /\ Len(deposited) = Len(accounts)
    /\ \A i \in 1..Len(accounts) :
         accounts[i].Balance =
           deposited[i] - InProgressSum(accounts[i].ID, Len(payments))

\* an account that got deposits of 3, has a payment in progress and a payment
\* rejected once, and holds less than was deposited
C20_Witness ==
  /\ ~imported
  /\ ~rejectedTwice
  /\ \E i \in 1..Len(accounts), j \in 1..Len(payments), k \in 1..Len(payments) :
       /\ deposited[i] = 3
       /\ payments[j].AccountID = accounts[i].ID
       /\ payments[j].Status = PaymentStatusInProgress
       /\ payments[k].AccountID = accounts[i].ID
       /\ payments[k].Status = PaymentStatusFail
       /\ accounts[i].Balance = 3 - payments[j].Amount

====
